---- MODULE Spec2Model ----
(***************************************************************************)
(* COSAR (vote-weighted attack pruning) and CSS (consensus-based extension *)
(* selection) of ttmassa/ter, modelled from src/src/cosar.py and           *)
(* src/src/css.py, with the vote shapes of src/src/parser.py.              *)
(*                                                                         *)
(* Python values are represented as follows.                               *)
(*  - a str is the sequence of its characters: "a" is <<"a">>, "xa" is     *)
(*    <<"x","a">>; unpacking a str into two names succeeds only when it    *)
(*    has exactly two characters;                                          *)
(*  - a dict is the sequence of its items in insertion order;              *)
(*  - a float score rounded to 3 decimals is the integer number of         *)
(*    thousandths (0.909 is 909);                                          *)
(*  - a call that may raise returns a record [err, val]; err = "none"      *)
(*    when the call returned val.                                          *)
(***************************************************************************)
EXTENDS Integers, Sequences, FiniteSets, TLC

VARIABLES
    arguments,      \* list of argument names
    atts,           \* list of attacks <<attacker, target>>
    votes,          \* the votes dict: [shape, items]
    semantics,      \* semantics code handed to the solver
    tally,          \* cosar.run: aggregate (result of aggregate_votes)
    scores,         \* cosar.run: scores (result of compute_scores)
    pruned_atts,    \* cosar.run: pruned_atts (result of prune_attacks)
    solver_calls,   \* calls made to solver.compute_some_extension
    extensions,     \* css.run: the candidate extensions (a list of sets)
    measure,        \* css.run: measure tag
    agg,            \* css.run: agg tag
    out,            \* what the running function returned or raised
    pc              \* position of the running function

vars == <<arguments, atts, votes, semantics, tally, scores, pruned_atts,
          solver_calls, extensions, measure, agg, out, pc>>

-----------------------------------------------------------------------------
(* Bounds of the model *)

MaxVotes == 2       \* votes in a dict of the aggregation runs
MaxPlus == 201      \* largest accept count of a tally
MaxMinus == 2       \* largest reject count of a tally
MaxZero == 1        \* largest abstain count of a tally
MaxAtts == 3        \* attacks in a list of the pruning runs
MaxRunAtts == 2     \* attacks in a list of the COSAR runs
MaxRunVotes == 2    \* votes in a dict of the COSAR runs
MaxExts == 2        \* candidate extensions of a CSS run
MaxCssVotes == 3    \* votes in a dict of the CSS runs

-----------------------------------------------------------------------------
(* Names *)

a == <<"a">>
b == <<"b">>
c == <<"c">>
AgentA == <<"A">>           \* a one-character agent name
AgentXa == <<"x", "a">>     \* a two-character agent name ending in "a"
AgentXc == <<"x", "c">>     \* a two-character agent name ending in "c"
AgentB == <<"B">>

\* a result not computed yet
Unset == [err |-> "unset", val |-> <<>>]

Returned(v) == [err |-> "none", val |-> v]
Raised(e) == [err |-> e, val |-> <<>>]

\* all sequences without repetition over S, of length at most n
RECURSIVE DistinctSeqs(_, _)
DistinctSeqs(S, n) ==
    IF n = 0 THEN {<<>>}
    ELSE LET shorter == DistinctSeqs(S, n - 1)
         IN  shorter \cup
             {t \in {Append(s, x) : s \in {u \in shorter : Len(u) = n - 1}, x \in S} :
                 \A i, j \in 1..Len(t) : t[i] = t[j] => i = j}

\* all sequences over S of length at most n
RECURSIVE BoundedSeqs(_, _)
BoundedSeqs(S, n) ==
    IF n = 0 THEN {<<>>}
    ELSE LET shorter == BoundedSeqs(S, n - 1)
         IN  shorter \cup
             {Append(s, x) : s \in {t \in shorter : Len(t) = n - 1}, x \in S}

Range(s) == {s[i] : i \in 1..Len(s)}

-----------------------------------------------------------------------------
(* Votes: the two shapes a votes dict has in this repository.              *)
(*  flat:   {(agent, argument): value}, the annotated parameter type of    *)
(*          cosar.aggregate_votes; an item is <<agent, argument, value>>   *)
(*  nested: {agent: {argument: value}}, what parser.read_apx returns and   *)
(*          cli.main passes on; an item is <<agent, inner>> with inner the *)
(*          sequence of the <<argument, value>> items of the inner dict    *)

FlatKeyOf(item) == <<item[1], item[2]>>

\* flat dicts of at most n items: the keys of a dict are distinct
RECURSIVE FlatVotes(_, _, _, _)
FlatVotes(agents, names, values, n) ==
    IF n = 0 THEN {<<>>}
    ELSE LET shorter == FlatVotes(agents, names, values, n - 1)
         IN  shorter \cup
             {Append(s[1], s[2]) :
                s \in {t \in {u \in shorter : Len(u) = n - 1}
                                \X (agents \X names \X values) :
                          \A i \in 1..Len(t[1]) :
                              FlatKeyOf(t[1][i]) # FlatKeyOf(t[2])}}

\* flat dicts of at most n items entered in the order of the list keys
RECURSIVE OrderedVotes(_, _, _)
OrderedVotes(keys, values, n) ==
    IF keys = <<>> \/ n = 0 THEN {<<>>}
    ELSE OrderedVotes(Tail(keys), values, n) \cup
         {<<<<Head(keys)[1], Head(keys)[2], v>>>> \o t :
             v \in values, t \in OrderedVotes(Tail(keys), values, n - 1)}

\* inner dicts of the nested shape
RECURSIVE InnerDicts(_, _, _)
InnerDicts(names, values, n) ==
    IF n = 0 THEN {<<>>}
    ELSE LET shorter == InnerDicts(names, values, n - 1)
         IN  shorter \cup
             {Append(s[1], s[2]) :
                s \in {t \in {u \in shorter : Len(u) = n - 1} \X (names \X values) :
                          \A i \in 1..Len(t[1]) : t[1][i][1] # t[2][1]}}

\* the items of nested dicts holding at most n votes: the agents are
\* distinct, and an agent is entered with its first vote
RECURSIVE NestedItems(_, _, _, _)
NestedItems(agents, names, values, n) ==
    IF n = 0 THEN {<<>>}
    ELSE {<<>>} \cup
         UNION {{<<first>> \o rest :
                    rest \in NestedItems(agents \ {first[1]}, names, values,
                                         n - Len(first[2]))} :
                first \in agents \X (InnerDicts(names, values, n) \ {<<>>})}

\* parser.read_apx: votes[agent][argument] = vote_value; the empty dict has
\* no shape and is counted with the flat dicts
NestedVotes(agents, names, values, n) ==
    NestedItems(agents, names, values, n) \ {<<>>}

Flat(items) == [shape |-> "flat", items |-> items]
Nested(items) == [shape |-> "nested", items |-> items]

\* `for (x, y), val in votes.items()`: the key of one item unpacked into two
\* names.  A tuple key gives its two components; a str key gives its two
\* characters, and raises ValueError unless it has exactly two.
UnpackItem(shape, item) ==
    IF shape = "flat"
    THEN [err |-> "none", x |-> item[1], y |-> item[2],
          val |-> [isint |-> TRUE, int |-> item[3], dict |-> <<>>]]
    ELSE IF Len(item[1]) = 2
    THEN [err |-> "none", x |-> <<item[1][1]>>, y |-> <<item[1][2]>>,
          val |-> [isint |-> FALSE, int |-> 0, dict |-> item[2]]]
    ELSE [err |-> "ValueError: unpack", x |-> <<>>, y |-> <<>>,
          val |-> [isint |-> FALSE, int |-> 0, dict |-> <<>>]]

\* `val == n` for an int n: a dict never equals an int
EqInt(val, n) == val.isint /\ val.int = n

-----------------------------------------------------------------------------
(* cosar.py *)

\* the bucket of a tally [v_minus, v_zero, v_plus] a vote value goes to,
\* 0 when the value is none of -1, 0, 1 (cosar.py lines 13-20)
Bucket(vote) ==
    IF EqInt(vote, -1) THEN 1
    ELSE IF EqInt(vote, 0) THEN 2
    ELSE IF EqInt(vote, 1) THEN 3
    ELSE 0

\* the loop of aggregate_votes from item i on, acc the tallies so far
RECURSIVE aggregate_loop(_, _, _)
aggregate_loop(vs, i, acc) ==
    IF i > Len(vs.items) THEN Returned(acc)
    ELSE LET u == UnpackItem(vs.shape, vs.items[i])
         IN  IF u.err # "none" THEN Raised(u.err)
             ELSE IF u.y \in DOMAIN acc
             THEN IF Bucket(u.val) = 0
                  THEN Raised("ValueError: invalid vote")
                  ELSE aggregate_loop(vs, i + 1,
                           [acc EXCEPT ![u.y][Bucket(u.val)] = @ + 1])
             ELSE aggregate_loop(vs, i + 1, acc)

aggregate_votes(args, vs) ==
    aggregate_loop(vs, 1, [arg \in Range(args) |-> <<0, 0, 0>>])

\* EPS = 0.1, in tenths
EPS == 1

\* round(num / den, 3) in thousandths, num >= 0 and den > 0 integers: the
\* nearest thousandth.  Here den = 10 * (v_minus + v_plus) + 1 is odd and
\* 2000 * num is even, so no quotient lies half-way between two thousandths
\* and Python's round-half-even never applies.
Round3(num, den) == (2000 * num + den) \div (2 * den)

\* the score without the smoothing constant
score_of_NoEps(v_minus, v_plus) ==
    IF v_plus = 0 /\ v_minus = 0
    THEN 0
    ELSE Round3(10 * v_plus, 10 * (v_minus + v_plus))

\* the score with the accept and reject counts taken the wrong way round
score_of_Swapped(v_minus, v_plus) ==
    IF v_plus = 0 /\ v_minus = 0
    THEN 0
    ELSE Round3(10 * v_minus, 10 * (v_minus + v_plus) + EPS)

\* the score of one argument (cosar.py lines 30-34), in thousandths
score_of(v_minus, v_plus) ==
    IF v_plus = 0 /\ v_minus = 0
    THEN 0
    ELSE Round3(10 * v_plus, 10 * (v_minus + v_plus) + EPS)

compute_scores(aggregate) ==
    [arg \in DOMAIN aggregate |->
        score_of(aggregate[arg][1], aggregate[arg][3])]

\* the test with ties dropped
KeepsStrict(sc, attacker, target) == sc[attacker] > sc[target]

\* the test of prune_attacks (cosar.py line 43)
Keeps(sc, attacker, target) == sc[attacker] >= sc[target]

\* the pair appended the wrong way round
AppendAttackSwapped(acc, attacker, target) == Append(acc, <<target, attacker>>)

\* pruned_atts.append([attacker, target]) (cosar.py line 44)
AppendAttack(acc, attacker, target) == Append(acc, <<attacker, target>>)

\* the loop of prune_attacks from attack i on; scores[x] raises KeyError for
\* a name with no score
RECURSIVE prune_loop(_, _, _, _)
prune_loop(as, sc, i, acc) ==
    IF i > Len(as) THEN Returned(acc)
    ELSE LET attacker == as[i][1]
             target == as[i][2]
         IN  IF attacker \notin DOMAIN sc \/ target \notin DOMAIN sc
             THEN Raised("KeyError")
             ELSE IF Keeps(sc, attacker, target)
             THEN prune_loop(as, sc, i + 1, AppendAttack(acc, attacker, target))
             ELSE prune_loop(as, sc, i + 1, acc)

prune_attacks(as, sc) == prune_loop(as, sc, 1, <<>>)

\* the solver called on the attacks as loaded
SolverCallUnpruned(args, original_atts, pruned, sem) ==
    [args |-> args, atts |-> original_atts, semantics |-> sem]

\* the call cosar.run makes to the solver (cosar.py line 57)
SolverCall(args, original_atts, pruned, sem) ==
    [args |-> args, atts |-> pruned, semantics |-> sem]

-----------------------------------------------------------------------------
(* cosar.run, one action per statement *)

\* aggregate = aggregate_votes(args, votes)
Aggregate ==
    /\ pc = "aggregate"
    /\ LET r == aggregate_votes(arguments, votes)
       IN  /\ tally' = r
           /\ IF r.err = "none"
              THEN pc' = "scores" /\ out' = out
              ELSE pc' = "raised" /\ out' = Raised(r.err)
    /\ UNCHANGED <<arguments, atts, votes, semantics, scores, pruned_atts,
                   solver_calls, extensions, measure, agg>>

\* scores = compute_scores(aggregate)
ComputeScores ==
    /\ pc = "scores"
    /\ scores' = Returned(compute_scores(tally.val))
    /\ pc' = "prune"
    /\ UNCHANGED <<arguments, atts, votes, semantics, tally, pruned_atts,
                   solver_calls, extensions, measure, agg, out>>

\* pruned_atts = prune_attacks(atts, scores)
Prune ==
    /\ pc = "prune"
    /\ LET r == prune_attacks(atts, scores.val)
       IN  /\ pruned_atts' = r
           /\ IF r.err = "none"
              THEN pc' = "solver" /\ out' = out
              ELSE pc' = "raised" /\ out' = Raised(r.err)
    /\ UNCHANGED <<arguments, atts, votes, semantics, tally, scores,
                   solver_calls, extensions, measure, agg>>

\* extensions = solver.compute_some_extension(args, pruned_atts, semantics):
\* the solver is an external library; it returns some set of arguments or
\* raises
Solve ==
    /\ pc = "solver"
    /\ solver_calls' = Append(solver_calls,
                          SolverCall(arguments, atts, pruned_atts.val, semantics))
    /\ \/ \E ext \in SUBSET Range(arguments) :
            extensions' = ext /\ pc' = "return" /\ out' = out
       \/ extensions' = extensions /\ pc' = "raised"
            /\ out' = Raised("SolverError")
    /\ UNCHANGED <<arguments, atts, votes, semantics, tally, scores,
                   pruned_atts, measure, agg>>

\* return pruned_atts, extensions
Return ==
    /\ pc = "return"
    /\ out' = Returned(<<pruned_atts.val, extensions>>)
    /\ pc' = "done"
    /\ UNCHANGED <<arguments, atts, votes, semantics, tally, scores,
                   pruned_atts, solver_calls, extensions, measure, agg>>

-----------------------------------------------------------------------------
(* css.py *)

\* d[k] = v on a dict d given as the sequence of its items <<k, v>>
DictPut(d, k, v) ==
    IF \E i \in 1..Len(d) : d[i][1] = k
    THEN [i \in 1..Len(d) |-> IF d[i][1] = k THEN <<k, v>> ELSE d[i]]
    ELSE Append(d, <<k, v>>)

\* agents.setdefault(ag, {})[arg] = val
GroupPut(agents, ag, arg, val) ==
    IF \E i \in 1..Len(agents) : agents[i][1] = ag
    THEN [i \in 1..Len(agents) |->
            IF agents[i][1] = ag
            THEN <<ag, DictPut(agents[i][2], arg, val)>>
            ELSE agents[i]]
    ELSE Append(agents, <<ag, <<<<arg, val>>>>>>)

\* "Group votes by agent" (css.py lines 6-8): the loop from item i on
RECURSIVE group_loop(_, _, _)
group_loop(vs, i, agents) ==
    IF i > Len(vs.items) THEN Returned(agents)
    ELSE LET u == UnpackItem(vs.shape, vs.items[i])
         IN  IF u.err # "none" THEN Raised(u.err)
             ELSE group_loop(vs, i + 1, GroupPut(agents, u.x, u.y, u.val))

\* vec = {a: 1 if a in ext else -1 for a in arguments}
Vec(ext, args) == [x \in Range(args) |-> IF x \in ext THEN 1 ELSE -1]

\* s = sum(1 for a, val in v.items() if a in vec and val == vec[a])
Agreement(v, vec) ==
    Cardinality({j \in 1..Len(v) :
        v[j][1] \in DOMAIN vec /\ EqInt(v[j][2], vec[v[j][1]])})

\* d = -sum(1 for a, val in v.items() if a in vec and val == -vec[a])
Disagreement(v, vec) ==
    0 - Cardinality({j \in 1..Len(v) :
        v[j][1] \in DOMAIN vec /\ EqInt(v[j][2], 0 - vec[v[j][1]])})

\* the measure with agreement as the default
MeasureDefaultS(m, s, d) ==
    IF m = "S" THEN s
    ELSE IF m = "D" THEN d
    ELSE IF m = "U" THEN s + d
    ELSE s

\* mesures.get(measure, s + d) with mesures = {'S': s, 'D': d, 'U': s + d}
Measure(m, s, d) ==
    IF m = "S" THEN s
    ELSE IF m = "D" THEN d
    ELSE IF m = "U" THEN s + d
    ELSE s + d

\* sc: the scores of the agents for one extension, in the agents' order
AgentScores(ext, args, agents, m) ==
    [k \in 1..Len(agents) |->
        Measure(m, Agreement(agents[k][2], Vec(ext, args)),
                   Disagreement(agents[k][2], Vec(ext, args)))]

RECURSIVE SumSeq(_)
SumSeq(sc) == IF sc = <<>> THEN 0 ELSE Head(sc) + SumSeq(Tail(sc))

MinSeq(sc) == CHOOSE x \in Range(sc) : \A y \in Range(sc) : x <= y

\* x inserted into the ascending list s
RECURSIVE Insert(_, _)
Insert(x, s) ==
    IF s = <<>> THEN <<x>>
    ELSE IF x <= Head(s) THEN <<x>> \o s
    ELSE <<Head(s)>> \o Insert(x, Tail(s))

\* sorted(sc)
RECURSIVE Sorted(_)
Sorted(sc) == IF sc = <<>> THEN <<>> ELSE Insert(Head(sc), Sorted(Tail(sc)))

Reverse(s) == [i \in 1..Len(s) |-> s[Len(s) + 1 - i]]

\* AggregateScore with the leximin list sorted in descending order
AggregateScore_LeximinDescending(sc, ag) ==
    IF ag = "sum" THEN Returned([num |-> TRUE, v |-> SumSeq(sc)])
    ELSE IF ag = "min"
    THEN IF sc = <<>> THEN Raised("ValueError: min of empty")
         ELSE Returned([num |-> TRUE, v |-> MinSeq(sc)])
    ELSE IF ag = "leximax" THEN Returned([num |-> FALSE, v |-> Reverse(Sorted(sc))])
    ELSE IF ag = "leximin" THEN Returned([num |-> FALSE, v |-> Reverse(Sorted(sc))])
    ELSE Returned([num |-> FALSE, v |-> Sorted(sc)])

\* "Aggregate scores" (css.py lines 26-35).  A score is a number or a list:
\* [num |-> TRUE, v |-> n] or [num |-> FALSE, v |-> list].  min() of an
\* empty list raises ValueError.
AggregateScore(sc, ag) ==
    IF ag = "sum" THEN Returned([num |-> TRUE, v |-> SumSeq(sc)])
    ELSE IF ag = "min"
    THEN IF sc = <<>> THEN Raised("ValueError: min of empty")
         ELSE Returned([num |-> TRUE, v |-> MinSeq(sc)])
    ELSE IF ag = "leximax" THEN Returned([num |-> FALSE, v |-> Reverse(Sorted(sc))])
    ELSE IF ag = "leximin" THEN Returned([num |-> FALSE, v |-> Sorted(sc)])
    ELSE Returned([num |-> FALSE, v |-> Sorted(sc)])

\* Python's s > t on two lists of numbers
RECURSIVE ListGreater(_, _)
ListGreater(s, t) ==
    IF s = <<>> THEN FALSE
    ELSE IF t = <<>> THEN TRUE
    ELSE IF Head(s) # Head(t) THEN Head(s) > Head(t)
    ELSE ListGreater(Tail(s), Tail(t))

\* x > y on two scores of one call, both numbers or both lists
ScoreGreater(x, y) == IF x.num THEN x.v > y.v ELSE ListGreater(x.v, y.v)

\* max(res, key=lambda x: x[1])[1]: the first of the greatest scores
RECURSIVE max_loop(_, _, _)
max_loop(res, i, best) ==
    IF i > Len(res) THEN best
    ELSE IF ScoreGreater(res[i], best) THEN max_loop(res, i + 1, res[i])
    ELSE max_loop(res, i + 1, best)

\* the selection that stops at the first extension with the best score
RECURSIVE best_loop_first(_, _, _, _, _)
best_loop_first(exts, res, mx, i, acc) ==
    IF i > Len(exts) THEN acc
    ELSE IF res[i] = mx THEN Append(acc, exts[i])
    ELSE best_loop_first(exts, res, mx, i + 1, acc)

\* [e for e, s in res if s == mx_score] (css.py line 43): the loop from i on
RECURSIVE best_loop(_, _, _, _, _)
best_loop(exts, res, mx, i, acc) ==
    IF i > Len(exts) THEN acc
    ELSE IF res[i] = mx THEN best_loop(exts, res, mx, i + 1, Append(acc, exts[i]))
    ELSE best_loop(exts, res, mx, i + 1, acc)

\* the score of every extension, or the first error raised computing them
\* (css.py lines 11-37)
ExtScores(exts, args, agents, m, ag) ==
    LET r == [i \in 1..Len(exts) |->
                AggregateScore(AgentScores(exts[i], args, agents, m), ag)]
    IN  IF \E i \in 1..Len(exts) : r[i].err # "none"
        THEN Raised(r[CHOOSE i \in 1..Len(exts) :
                        /\ r[i].err # "none"
                        /\ \A j \in 1..(i - 1) : r[j].err = "none"].err)
        ELSE Returned([i \in 1..Len(exts) |-> r[i].val])

\* css.run(extensions, arguments, votes_dict, measure, agg)
css_run(exts, args, vs, m, ag) ==
    IF exts = <<>> THEN Returned(<<>>)
    ELSE LET g == group_loop(vs, 1, <<>>)
         IN  IF g.err # "none" THEN Raised(g.err)
             ELSE LET res == ExtScores(exts, args, g.val, m, ag)
                  IN  IF res.err # "none" THEN Raised(res.err)
                      ELSE Returned(best_loop(exts, res.val,
                                        max_loop(res.val, 2, res.val[1]), 1, <<>>))

\* best_extensions = run_css(initial_extensions, args, votes, measure, agg)
Select ==
    /\ pc = "css"
    /\ \E m \in {"S", "D", "U", "X"}, ag \in {"sum", "min", "leximax", "leximin", "other"} :
          /\ measure' = m
          /\ agg' = ag
          /\ out' = css_run(extensions, arguments, votes, m, ag)
    /\ pc' = "selected"
    /\ UNCHANGED <<arguments, atts, votes, semantics, tally, scores,
                   pruned_atts, solver_calls, extensions>>

-----------------------------------------------------------------------------
(* Inputs *)

\* votes of the aggregation runs: flat dicts with values inside and outside
\* {-1, 0, 1} on arguments inside and outside the set, and nested dicts as
\* the loader builds them
AggVotes ==
    {Flat(s) : s \in FlatVotes({AgentA, AgentXa}, {a, b, c}, {-1, 0, 1, 2}, MaxVotes)}
    \cup {Nested(s) : s \in NestedVotes({AgentA, AgentXa, AgentXc}, {a, b}, {-1, 0, 1}, MaxVotes)}

RunVotes ==
    {Flat(s) : s \in FlatVotes({AgentA}, {a, b}, {-1, 1, 2}, MaxRunVotes)}
    \cup {Nested(s) : s \in NestedVotes({AgentA, AgentXc}, {a}, {1}, MaxRunVotes)}

Tallies ==
    {[x \in {a} |-> <<m, z, p>>] :
        m \in 0..MaxMinus, z \in 0..MaxZero, p \in 0..MaxPlus}

\* score maps with and without an entry for c
ScoreMaps == [{a, b} -> {0, 909}] \cup [{a, b, c} -> {0, 909}]

Quiet ==
    /\ semantics = "PR"
    /\ solver_calls = <<>>
    /\ extensions = <<>>
    /\ measure = "U"
    /\ agg = "sum"
    /\ out = Unset

\* aggregate_votes on its own
InitAgg ==
    /\ arguments \in {<<a, b>>, <<a, b, c>>}
    /\ votes \in AggVotes
    /\ atts = <<>>
    /\ tally = Unset /\ scores = Unset /\ pruned_atts = Unset
    /\ Quiet
    /\ pc = "aggregate"

NextAgg == Aggregate

SpecAgg == InitAgg /\ [][NextAgg]_vars

\* compute_scores on its own
InitScore ==
    /\ arguments = <<a>>
    /\ votes = Flat(<<>>)
    /\ atts = <<>>
    /\ tally \in {Returned(t) : t \in Tallies}
    /\ scores = Unset /\ pruned_atts = Unset
    /\ Quiet
    /\ pc = "scores"

NextScore == ComputeScores

SpecScore == InitScore /\ [][NextScore]_vars

\* prune_attacks on its own
InitPrune ==
    /\ arguments = <<a, b>>
    /\ votes = Flat(<<>>)
    /\ atts \in BoundedSeqs({a, b, c} \X {a, b, c}, MaxAtts)
    /\ tally = Unset
    /\ scores \in {Returned(m) : m \in ScoreMaps}
    /\ pruned_atts = Unset
    /\ Quiet
    /\ pc = "prune"

NextPrune == Prune

SpecPrune == InitPrune /\ [][NextPrune]_vars

\* cosar.run
InitRun ==
    /\ arguments = <<a, b>>
    /\ votes \in RunVotes
    /\ atts \in BoundedSeqs({<<a, b>>, <<b, a>>, <<a, c>>}, MaxRunAtts)
    /\ tally = Unset /\ scores = Unset /\ pruned_atts = Unset
    /\ Quiet
    /\ pc = "aggregate"

NextRun == Aggregate \/ ComputeScores \/ Prune \/ Solve \/ Return

SpecRun == InitRun /\ [][NextRun]_vars

\* votes of the CSS runs: flat dicts of two agents on a, b and on c, which
\* is no argument, entered in the order of CssKeys, and nested dicts as the
\* loader builds them
CssKeys == <<<<AgentA, a>>, <<AgentA, b>>, <<AgentB, a>>, <<AgentB, c>>>>

CssVotes ==
    {Flat(s) : s \in OrderedVotes(CssKeys, {-1, 0, 1}, MaxCssVotes)}
    \cup {Nested(s) : s \in NestedVotes({AgentA, AgentXa}, {a}, {-1, 1}, MaxCssVotes)}

\* css.run
InitCss ==
    /\ arguments = <<a, b>>
    /\ votes \in CssVotes
    /\ atts = <<>>
    /\ tally = Unset /\ scores = Unset /\ pruned_atts = Unset
    /\ semantics = "PR"
    /\ solver_calls = <<>>
    /\ extensions \in DistinctSeqs({{}, {a}, {b}}, MaxExts)
    /\ measure = "U"
    /\ agg = "sum"
    /\ out = Unset
    /\ pc = "css"

NextCss == Select

SpecCss == InitCss /\ [][NextCss]_vars

-----------------------------------------------------------------------------
(* Properties of prune_attacks, under SpecPrune *)

Pruned == pc \in {"solver", "raised"}

\* every name an attack refers to has a score
AllScored == \A i \in 1..Len(atts) :
                atts[i][1] \in DOMAIN scores.val /\ atts[i][2] \in DOMAIN scores.val

\* the positions of the attacks whose attacker scores at least its target
KeptPositions ==
    {i \in 1..Len(atts) : scores.val[atts[i][1]] >= scores.val[atts[i][2]]}

\* C1: prune returns exactly the pairs of its input whose attacker's score is
\* at least the target's, ties included, in their original order and with
\* their multiplicity: the k-th kept position of the input is the k-th pair
\* of the output, and the output has no other pair.
C1_PruneKeepsExactly ==
    (Pruned /\ AllScored) =>
        /\ pruned_atts.err = "none"
        /\ Len(pruned_atts.val) = Cardinality(KeptPositions)
        /\ \A i \in KeptPositions :
              pruned_atts.val[Cardinality({j \in KeptPositions : j <= i})] = atts[i]

\* a run that keeps a tie between two arguments and a repeated pair, and
\* drops a pair
C1_Witness ==
    /\ Pruned /\ AllScored
    /\ \E i \in KeptPositions :
          /\ atts[i][1] # atts[i][2]
          /\ scores.val[atts[i][1]] = scores.val[atts[i][2]]
    /\ \E i, j \in KeptPositions : i < j /\ atts[i] = atts[j]
    /\ KeptPositions # 1..Len(atts)

\* s is t with some of its elements left out
RECURSIVE IsSubSeq(_, _)
IsSubSeq(s, t) ==
    IF s = <<>> THEN TRUE
    ELSE IF t = <<>> THEN FALSE
    ELSE IF Head(s) = Head(t) THEN IsSubSeq(Tail(s), Tail(t))
    ELSE IsSubSeq(s, Tail(t))

\* C8: when every referenced argument has a score, the output of prune is a
\* sub-sequence of its input and pruning the output again with the same
\* scores returns it unchanged.
C8_PruneIdempotent ==
    (Pruned /\ AllScored) =>
        /\ pruned_atts.err = "none"
        /\ IsSubSeq(pruned_atts.val, atts)
        /\ prune_attacks(pruned_atts.val, scores.val) = Returned(pruned_atts.val)

\* a run that drops some attacks and keeps others
C8_Witness ==
    /\ Pruned /\ AllScored
    /\ pruned_atts.err = "none"
    /\ Len(pruned_atts.val) >= 2
    /\ Len(pruned_atts.val) < Len(atts)

-----------------------------------------------------------------------------
(* Properties of compute_scores, under SpecScore *)

Scored == pc = "prune"

\* C4 as stated: the score is at least 0 and below 1.0
C4_ScoreBelowOne ==
    Scored => \A x \in DOMAIN scores.val :
                  0 <= scores.val[x] /\ scores.val[x] < 1000

\* C4, amended: the score is at least 0 and at most 1.0, and it is 1.0
\* exactly when v_plus >= 1999 * v_minus + 200: rounding to 3 decimals takes
\* 200 / 200.1 to 1.0.
C4_ScoreAtMostOne ==
    Scored => \A x \in DOMAIN scores.val :
                  /\ 0 <= scores.val[x] /\ scores.val[x] <= 1000
                  /\ scores.val[x] = 1000
                        <=> tally.val[x][3] >= 1999 * tally.val[x][1] + 200

\* a tally without reject votes whose score is rounded to 1.0
C4_Witness ==
    /\ Scored
    /\ scores.val[a] = 1000
    /\ tally.val[a][1] = 0

\* C9: one more accept vote never lowers the rounded score, one more reject
\* vote never raises it, whatever the abstain count.
C9_ScoreMonotone ==
    Scored => \A x \in DOMAIN scores.val :
                  LET m == tally.val[x][1]
                      p == tally.val[x][3]
                  IN  /\ score_of(m, p + 1) >= scores.val[x]
                      /\ score_of(m + 1, p) <= scores.val[x]

\* the steps that leave the case v_minus = v_plus = 0
C9_Witness ==
    /\ Scored
    /\ tally.val[a][1] = 0 /\ tally.val[a][3] = 0 /\ tally.val[a][2] > 0
    /\ scores.val[a] = 0
    /\ score_of(0, 1) > 0

-----------------------------------------------------------------------------
(* Properties of aggregate_votes, under SpecAgg *)

Aggregated == pc \in {"scores", "raised"}

\* the number of agents of a nested votes dict that voted v on argument x
NestedCount(x, v) ==
    Cardinality({i \in 1..Len(votes.items) :
        \E j \in 1..Len(votes.items[i][2]) : votes.items[i][2][j] = <<x, v>>})

\* C2: for votes in the agent -> argument -> value shape, aggregate returns a
\* tally-map over exactly the argument set whose triples count the agents
\* that voted -1, 0 and 1 on each argument.
C2_NestedTally ==
    (Aggregated /\ votes.shape = "nested") =>
        /\ tally.err = "none"
        /\ DOMAIN tally.val = Range(arguments)
        /\ \A x \in Range(arguments) :
              tally.val[x] = <<NestedCount(x, -1), NestedCount(x, 0), NestedCount(x, 1)>>

\* C6: a vote with a value outside {-1, 0, 1}, on any argument and at any
\* place of the dict, makes aggregate raise the invalid-vote error.
C6_InvalidVoteRaises ==
    (/\ Aggregated
     /\ votes.shape = "flat"
     /\ \E i \in 1..Len(votes.items) : votes.items[i][3] \notin {-1, 0, 1}) =>
        tally.err = "ValueError: invalid vote"

-----------------------------------------------------------------------------
(* Properties of cosar.run, under SpecRun *)

Failed(r) == r.err \notin {"unset", "none"}

\* C7: the steps of a run happen in the order aggregate, score, prune,
\* solver; the solver is called at most once, after the three earlier steps
\* returned, with the original arguments, the pruned attacks and the given
\* semantics; when aggregation or pruning raises, the run ends with that
\* error, without a call of the solver and without a returned pair; when the
\* solver raises, the run ends with its error.
C7_RunOrder ==
    /\ Len(solver_calls) <= 1
    /\ scores.err # "unset" => tally.err = "none"
    /\ pruned_atts.err # "unset" => scores.err = "none"
    /\ tally.err = "none" => tally = aggregate_votes(arguments, votes)
    /\ scores.err = "none" => scores.val = compute_scores(tally.val)
    /\ pruned_atts.err # "unset" => pruned_atts = prune_attacks(atts, scores.val)
    /\ solver_calls # <<>> =>
          /\ pruned_atts.err = "none"
          /\ solver_calls[1] =
                [args |-> arguments, atts |-> pruned_atts.val, semantics |-> semantics]
    /\ pc \in {"return", "done"} => Len(solver_calls) = 1
    /\ Failed(tally) =>
          pc = "raised" /\ out = Raised(tally.err) /\ solver_calls = <<>>
             /\ scores.err = "unset" /\ pruned_atts.err = "unset"
    /\ Failed(pruned_atts) =>
          pc = "raised" /\ out = Raised(pruned_atts.err) /\ solver_calls = <<>>
    /\ (pc = "raised" /\ solver_calls # <<>>) => out = Raised("SolverError")
    /\ pc = "done" => out = Returned(<<pruned_atts.val, extensions>>)
    /\ out.err = "none" => pc = "done"

\* a run that returned after the solver was called on attacks that pruning
\* had changed
C7_Witness ==
    /\ pc = "done"
    /\ pruned_atts.val # atts
    /\ pruned_atts.val # <<>>
    /\ Len(solver_calls) = 1

-----------------------------------------------------------------------------
(* Properties of css.run, under SpecCss *)

Selected == pc = "selected"

\* x is a greater aggregate score than y: a greater number, or a list that
\* is greater at the first rank where the two lists differ
Beats(x, y) ==
    IF x.num THEN x.v > y.v
    ELSE \E k \in 1..Len(x.v) :
            /\ k <= Len(y.v)
            /\ x.v[k] > y.v[k]
            /\ \A h \in 1..(k - 1) : x.v[h] = y.v[h]

\* the positions of the extensions whose aggregate score no other beats
WinnerPositions ==
    LET agents == group_loop(votes, 1, <<>>).val
        score == [i \in 1..Len(extensions) |->
                    AggregateScore(
                        AgentScores(extensions[i], arguments, agents, measure),
                        agg).val]
    IN  {i \in 1..Len(extensions) :
            \A j \in 1..Len(extensions) : ~Beats(score[j], score[i])}

\* C3: for a non-empty extension list, select returns the extensions whose
\* aggregate score is the maximum over the list, all of them and no other,
\* in the order they were supplied.
C3_SelectAllMaxima ==
    (Selected /\ extensions # <<>>) =>
        /\ out.err = "none"
        /\ LET w == WinnerPositions
           IN  /\ Len(out.val) = Cardinality(w)
               /\ \A i \in w :
                     out.val[Cardinality({j \in w : j <= i})] = extensions[i]

\* What holds of C3: select returns whenever the votes are keyed by
\* (agent, argument) and agg is not min over no agent, and whenever it
\* returns, it returns the extensions of maximal score in the order supplied.
C3_SelectAllMaximaWhenReturned ==
    (Selected /\ extensions # <<>>) =>
        /\ (votes.shape = "flat" /\ (agg # "min" \/ votes.items # <<>>)) =>
              out.err = "none"
        /\ out.err = "none" =>
              LET w == WinnerPositions
              IN  /\ Len(out.val) = Cardinality(w)
                  /\ \A i \in w :
                        out.val[Cardinality({j \in w : j <= i})] = extensions[i]

\* a call on two extensions that tie under the list score of leximax though
\* the agents score them differently: both are returned, in the order
\* supplied
C3_TieReturned ==
    /\ Selected
    /\ votes.shape = "flat"
    /\ agg = "leximax"
    /\ Len(extensions) = 2
    /\ out = Returned(extensions)
    /\ LET agents == group_loop(votes, 1, <<>>).val
       IN  AgentScores(extensions[1], arguments, agents, measure)
              # AgentScores(extensions[2], arguments, agents, measure)

\* C5: select on a list of exactly one extension returns a list of exactly
\* that extension, for any votes, measure and agg.
C5_SingleExtension ==
    (Selected /\ Len(extensions) = 1) => out = Returned(extensions)

KnownMeasures == {"S", "D", "U"}
KnownAggs == {"sum", "min", "leximax", "leximin"}

\* C10: an unrecognized measure gives the result of measure 'U' and an
\* unrecognized agg the result of agg 'leximin', on the same extensions,
\* arguments and votes.
C10_UnknownTagFallback ==
    Selected =>
        /\ measure \notin KnownMeasures =>
              out = css_run(extensions, arguments, votes, "U", agg)
        /\ agg \notin KnownAggs =>
              out = css_run(extensions, arguments, votes, measure, "leximin")

\* a call with both tags unrecognized that returns one of two extensions,
\* where measure 'S' and agg 'sum' would return something else
C10_Witness ==
    /\ Selected
    /\ measure \notin KnownMeasures
    /\ agg \notin KnownAggs
    /\ out.err = "none"
    /\ Len(extensions) = 2
    /\ Len(out.val) = 1
    /\ css_run(extensions, arguments, votes, "S", agg) # out
    /\ css_run(extensions, arguments, votes, measure, "sum") # out

\* the consensus vector entry of argument x for the extension ext
Entry(x, ext) == IF x \in ext THEN 1 ELSE -1

\* the agreement, the disagreement and the number of non-abstain votes of an
\* agent whose votes are the <<argument, value>> items of inner, as C11
\* states them
ClaimedS(inner, ext) ==
    Cardinality({j \in 1..Len(inner) :
        inner[j][1] \in Range(arguments) /\ inner[j][2] = Entry(inner[j][1], ext)})

ClaimedD(inner, ext) ==
    0 - Cardinality({j \in 1..Len(inner) :
        inner[j][1] \in Range(arguments) /\ inner[j][2] = 0 - Entry(inner[j][1], ext)})

NonAbstain(inner) == Cardinality({j \in 1..Len(inner) : inner[j][2] # 0})

\* C11: for votes in the agent -> argument -> value shape, the score css.run
\* computes for each agent and extension is S = the number of the agent's
\* votes equal to the consensus vector entry, D = minus the number of its
\* votes opposite to the entry, U = S + D; so S >= 0, D <= 0 and S - D is at
\* most the agent's number of non-abstain votes.
C11_NestedAgentScores ==
    (Selected /\ votes.shape = "nested" /\ extensions # <<>>) =>
        LET g == group_loop(votes, 1, <<>>)
        IN  /\ g.err = "none"
            /\ Len(g.val) = Len(votes.items)
            /\ \A i \in 1..Len(extensions), k \in 1..Len(votes.items) :
                  LET inner == votes.items[k][2]
                      ext == extensions[i]
                      s == AgentScores(ext, arguments, g.val, "S")[k]
                      d == AgentScores(ext, arguments, g.val, "D")[k]
                      u == AgentScores(ext, arguments, g.val, "U")[k]
                  IN  /\ s = ClaimedS(inner, ext)
                      /\ d = ClaimedD(inner, ext)
                      /\ u = s + d
                      /\ s >= 0 /\ d <= 0
                      /\ s - d <= NonAbstain(inner)

\* the votes of agent ag in a flat votes dict, as <<argument, value>> items
RECURSIVE VotesOf(_, _, _)
VotesOf(items, ag, i) ==
    IF i > Len(items) THEN <<>>
    ELSE IF items[i][1] = ag
    THEN <<<<items[i][2], items[i][3]>>>> \o VotesOf(items, ag, i + 1)
    ELSE VotesOf(items, ag, i + 1)

\* What holds of C11: for votes keyed by (agent, argument), css.run groups
\* the votes by agent and computes S, D and U as C11 states them.
C11_FlatAgentScores ==
    (Selected /\ votes.shape = "flat" /\ extensions # <<>>) =>
        LET g == group_loop(votes, 1, <<>>)
        IN  /\ g.err = "none"
            /\ {g.val[k][1] : k \in 1..Len(g.val)}
                  = {votes.items[j][1] : j \in 1..Len(votes.items)}
            /\ \A i \in 1..Len(extensions), k \in 1..Len(g.val) :
                  LET inner == VotesOf(votes.items, g.val[k][1], 1)
                      ext == extensions[i]
                      s == AgentScores(ext, arguments, g.val, "S")[k]
                      d == AgentScores(ext, arguments, g.val, "D")[k]
                      u == AgentScores(ext, arguments, g.val, "U")[k]
                  IN  /\ s = ClaimedS(inner, ext)
                      /\ d = ClaimedD(inner, ext)
                      /\ u = s + d
                      /\ s >= 0 /\ d <= 0
                      /\ s - d <= NonAbstain(inner)

\* what css.run returns on the same extensions, arguments, votes and measure
\* with agg = 'min'
MinSelected == css_run(extensions, arguments, votes, measure, "min")

\* C12: leximin refines min: for a non-empty extension list, votes with at
\* least one agent and any measure, every extension css.run returns with
\* agg = 'leximin' is also returned with agg = 'min' on the same inputs; on
\* votes keyed by (agent, argument) both calls return.
C12_LeximinRefinesMin ==
    (Selected /\ agg = "leximin" /\ extensions # <<>> /\ votes.items # <<>>) =>
        /\ votes.shape = "flat" => out.err = "none"
        /\ out.err = "none" =>
              /\ MinSelected.err = "none"
              /\ \A i \in 1..Len(out.val) :
                    \E j \in 1..Len(MinSelected.val) : MinSelected.val[j] = out.val[i]

\* a leximin selection that is strictly finer than the min selection: two
\* extensions tie on the lowest agent score and leximin returns only one
C12_Witness ==
    /\ Selected /\ agg = "leximin" /\ votes.shape = "flat"
    /\ Len(extensions) = 2
    /\ out.err = "none" /\ Len(out.val) = 1
    /\ MinSelected.err = "none" /\ Len(MinSelected.val) = 2

====
